---- MODULE Spec2Model ----
(***************************************************************************)
(* State-machine model of torch/distributed/checkpoint/_hf_storage.py:     *)
(* the HuggingFace storage writer (prepare_global_plan, write_data,        *)
(* finish), the storage reader (read_metadata, read_data) and the          *)
(* safetensors header parser.                                              *)
(*                                                                         *)
(* Python values are modelled as follows.                                  *)
(*   str used as a file name or path : sequence of one-character strings   *)
(*   str used as a tensor name (fqn)  : a TLA+ string                       *)
(*   Optional[T]                      : <<>> for None, <<v>> for a value v  *)
(*   dict with insertion order        : sequence of <<key, value>> pairs    *)
(*   dict used for lookup only        : function                            *)
(*   raised exception                 : a record of ErrorValue's shape      *)
(***************************************************************************)
EXTENDS Integers, Sequences, FiniteSets, TLC

\* ------------------------------------------------------------------ bounds
NumProcs == 2
MaxItems == 2
MaxIndex == 2
MaxReadItems == 2

Names == {"a", "b"}
Procs == 1..NumProcs

\* ---------------------------------------------------------------- Optional
None == <<>>
Some(v) == <<v>>
Get(o) == o[1]

\* ------------------------------------------------------------------ errors
ErrorValue(type, fqn, found, target_size, source_size) ==
    [type |-> type, fqn |-> fqn, found |-> found,
     target_size |-> target_size, source_size |-> source_size]
NoError == ErrorValue("none", "", 0, 0, 0)
KeyError(key) == ErrorValue("KeyError", key, 0, 0, 0)

\* ----------------------------------------------------------------- strings
SetMax(S) == CHOOSE x \in S : \A y \in S : y <= x
Range(s) == {s[i] : i \in DOMAIN s}

Digit(d) == <<"0", "1", "2", "3", "4", "5", "6", "7", "8", "9">>[d + 1]

\* f"{n}" for a non-negative integer n
RECURSIVE Str(_)
Str(n) == IF n < 10 THEN <<Digit(n)>> ELSE Str(n \div 10) \o <<Digit(n % 10)>>

\* str.zfill(width): pad with "0" on the left up to width, never truncate
\* the zeros are put after the numeral
RECURSIVE zfill_right(_, _)
zfill_right(s, width) == IF Len(s) >= width THEN s ELSE zfill_right(s \o <<"0">>, width)

RECURSIVE zfill(_, _)
zfill(s, width) == IF Len(s) >= width THEN s ELSE zfill(<<"0">> \o s, width)

\* str.endswith(suffix)
endswith(s, suffix) ==
    /\ Len(s) >= Len(suffix)
    /\ SubSeq(s, Len(s) - Len(suffix) + 1, Len(s)) = suffix

PadWidth == 5

_metadata_fn ==
    <<"m", "o", "d", "e", "l", ".", "s", "a", "f", "e", "t", "e", "n", "s", "o", "r", "s",
      ".", "i", "n", "d", "e", "x", ".", "j", "s", "o", "n">>

FILE_NAME(cpt_idx, num_files) ==
    <<"m", "o", "d", "e", "l", "-">> \o cpt_idx \o <<"-", "o", "f", "-">> \o num_files

SHARDED_FILE_NAME(shard_idx, cpt_idx, num_files) ==
    <<"s", "h", "a", "r", "d", "-">> \o shard_idx \o <<"-", "m", "o", "d", "e", "l", "-">>
        \o cpt_idx \o <<"-", "o", "f", "-">> \o num_files

SUFFIX == <<".", "s", "a", "f", "e", "t", "e", "n", "s", "o", "r", "s">>

\* the checkpoint directory (self.path) and fs.concat_path / os.path.basename
path == <<"c", "k", "p", "t">>
concat_path(dir, name) == dir \o <<"/">> \o name

\* the path is kept whole where its last component is meant
basename_whole(p) == p

RECURSIVE basename(_)
basename(p) ==
    IF \E i \in DOMAIN p : p[i] = "/"
    THEN basename(SubSeq(p, (CHOOSE i \in DOMAIN p : p[i] = "/") + 1, Len(p)))
    ELSE p

\* --------------------------------------------------- insertion-ordered dict
DictKeys(d) == {d[i][1] : i \in DOMAIN d}
DictHas(d, k) == k \in DictKeys(d)
DictGet(d, k) == d[CHOOSE i \in DOMAIN d : d[i][1] = k][2]
\* d[k] = v: an existing key keeps its position, a new key goes last
DictSet(d, k, v) ==
    IF DictHas(d, k)
    THEN [i \in DOMAIN d |-> IF d[i][1] = k THEN <<k, v>> ELSE d[i]]
    ELSE Append(d, <<k, v>>)
\* d.update(e)
RECURSIVE DictUpdate(_, _)
DictUpdate(d, e) ==
    IF e = <<>> THEN d ELSE DictUpdate(DictSet(d, e[1][1], e[1][2]), Tail(e))
\* dict built from (key, value) pairs in order, as a comprehension does
DictOf(pairs) == DictUpdate(<<>>, pairs)

RECURSIVE SeqSum(_)
SeqSum(s) == IF s = <<>> THEN 0 ELSE s[1] + SeqSum(Tail(s))

\* ------------------------------------------------------------------ tensors
\* A tensor is its size (number of elements of a 1-d tensor) and its content.
Tensor(size, data) == [size |-> size, data |-> data]
NameRank(fqn) == IF fqn = "a" THEN 1 ELSE IF fqn = "b" THEN 2 ELSE 3
\* planner.resolve_data(write_item): the tensor process p holds under fqn
resolve_data(p, fqn) == Tensor(NameRank(fqn), 10 * p + NameRank(fqn))

WriteItem(fqn, p) == [index |-> [fqn |-> fqn], proc |-> p]
WriteResult(fqn, relative_path, length) ==
    [index |-> [fqn |-> fqn],
     storage_data |-> [relative_path |-> relative_path, length |-> length]]

\* ------------------------------------------------------- safetensors format
\* A safetensors file is an 8-byte little-endian header length, a JSON header
\* and the payload. len_bytes holds the bytes of the length prefix that are
\* there (fewer than 8 in a truncated file), body the bytes after the prefix,
\* one element per JSON token or payload byte, and tensors what the payload
\* decodes to.
LBRACE == "{"
RBRACE == "}"
PAYLOAD == "#"

RECURSIVE LittleEndian(_, _)
\* struct.pack("<Q", n) cut to k bytes
LittleEndian(n, k) == IF k = 0 THEN <<>> ELSE <<n % 256>> \o LittleEndian(n \div 256, k - 1)

RECURSIVE FromLittleEndian(_)
\* struct.unpack("<Q", bytes)[0]
FromLittleEndian(bytes) ==
    IF bytes = <<>> THEN 0 ELSE bytes[1] + 256 * FromLittleEndian(Tail(bytes))

StFile(len_bytes, body, tensors) ==
    [kind |-> "safetensors", len_bytes |-> len_bytes, body |-> body, tensors |-> tensors,
     total_size |-> 0, weight_map |-> <<>>]
JsonFile(total_size, weight_map) ==
    [kind |-> "json", len_bytes |-> <<>>, body |-> <<>>, tensors |-> <<>>,
     total_size |-> total_size, weight_map |-> weight_map]

\* safetensors.torch.save(tensor_dict): header keys in dict order, then payload
save(tensor_dict) ==
    LET header == <<LBRACE>> \o [i \in DOMAIN tensor_dict |-> tensor_dict[i][1]] \o <<RBRACE>>
    IN  StFile(LittleEndian(Len(header), 8),
               header \o [i \in DOMAIN tensor_dict |-> PAYLOAD],
               tensor_dict)

\* ----------------------------------------------------------------- writer
\* one entry of file_queue: (path, file_name, write_items)
Task(file_path, file_name, write_items) ==
    [path |-> file_path, file_name |-> file_name, write_items |-> write_items]

StorageData(mapping, shard_index) ==
    [fqn_to_index_mapping |-> mapping, shard_index |-> shard_index]
SavePlan(items, storage_data) == [items |-> items, storage_data |-> storage_data]

\* the plans are numbered from 0
prepare_global_plan_from_zero(mapping, sharded, plans) ==
    [i \in DOMAIN plans |->
        SavePlan(plans[i].items,
                 Some(StorageData(IF mapping # None THEN mapping ELSE None,
                                  IF sharded THEN Some(i - 1) ELSE None)))]

\* every plan gets the shard index of the first
prepare_global_plan_one_shard(mapping, sharded, plans) ==
    [i \in DOMAIN plans |->
        SavePlan(plans[i].items,
                 Some(StorageData(IF mapping # None THEN mapping ELSE None,
                                  IF sharded THEN Some(1) ELSE None)))]

\* prepare_global_plan: plan i (1-based) gets a new storage_data
prepare_global_plan(mapping, sharded, plans) ==
    [i \in DOMAIN plans |->
        SavePlan(plans[i].items,
                 Some(StorageData(IF mapping # None THEN mapping ELSE None,
                                  IF sharded THEN Some(i) ELSE None)))]

\* the bucket is replaced where the item should be appended
BucketAddReplace(buckets, idx, item) == DictSet(buckets, idx, <<item>>)

\* buckets[idx].append(item), buckets[idx] = [item] for a new idx
BucketAdd(buckets, idx, item) ==
    IF DictHas(buckets, idx)
    THEN DictSet(buckets, idx, Append(DictGet(buckets, idx), item))
    ELSE DictSet(buckets, idx, <<item>>)

Result(ok, value, error) == [ok |-> ok, value |-> value, error |-> error]

\* an item whose name is not in the map is skipped where the lookup should raise
RECURSIVE SplitLoopSkip(_, _, _)
SplitLoopSkip(storage_plan, items, buckets) ==
    IF items = <<>> THEN Result(TRUE, buckets, NoError)
    ELSE LET key == items[1].index.fqn
         IN  IF key \notin DOMAIN storage_plan
             THEN SplitLoopSkip(storage_plan, Tail(items), buckets)
             ELSE SplitLoopSkip(storage_plan, Tail(items),
                                BucketAdd(buckets, storage_plan[key], items[1]))

RECURSIVE SplitLoop(_, _, _)
SplitLoop(storage_plan, items, buckets) ==
    IF items = <<>> THEN Result(TRUE, buckets, NoError)
    ELSE LET key == items[1].index.fqn
         IN  IF key \notin DOMAIN storage_plan
             THEN Result(FALSE, <<>>, KeyError(key))
             ELSE SplitLoop(storage_plan, Tail(items),
                            BucketAdd(buckets, storage_plan[key], items[1]))

_split_by_storage_plan(storage_plan, items) ==
    IF storage_plan = None
    THEN Result(TRUE, << <<1, items>> >>, NoError)
    ELSE SplitLoop(Get(storage_plan), items, <<>>)

_gen_file_name(index, largest_index, shard_index) ==
    IF shard_index # None
    THEN SHARDED_FILE_NAME(zfill(Str(Get(shard_index)), PadWidth),
                           zfill(Str(index), PadWidth),
                           zfill(Str(largest_index), PadWidth)) \o SUFFIX
    ELSE FILE_NAME(zfill(Str(index), PadWidth), zfill(Str(largest_index), PadWidth)) \o SUFFIX

\* the number of entries of the map where its highest value is meant
HighestIndexLen(storage_plan) ==
    IF storage_plan # None THEN Cardinality(DOMAIN Get(storage_plan)) ELSE 1

\* max(storage_plan.values()) if storage_plan is not None else 1
HighestIndex(storage_plan) ==
    IF storage_plan # None
    THEN SetMax({Get(storage_plan)[k] : k \in DOMAIN Get(storage_plan)})
    ELSE 1

\* each name counts up to its own bucket's index
FileQueueOwnCount(buckets, highest_index, shard_index) ==
    [i \in DOMAIN buckets |->
        LET file_name == _gen_file_name(buckets[i][1], buckets[i][1], shard_index)
        IN  Task(concat_path(path, file_name), file_name, buckets[i][2])]

\* the loop that fills file_queue, one task per bucket in dict order
FileQueue(buckets, highest_index, shard_index) ==
    [i \in DOMAIN buckets |->
        LET file_name == _gen_file_name(buckets[i][1], highest_index, shard_index)
        IN  Task(concat_path(path, file_name), file_name, buckets[i][2])]

\* write_data up to the call of _write_data: the early return on an empty
\* plan (returned |-> TRUE, the future holds []), the KeyError of the split,
\* or the queue handed to _write_data.
WriteDataOutcome(returned, file_queue, error) ==
    [returned |-> returned, file_queue |-> file_queue, error |-> error]

\* write_data without the early return on an empty plan
write_data_no_early_return(plan) ==
    LET storage_data == Get(plan.storage_data)
        storage_plan == storage_data.fqn_to_index_mapping
        shard_index  == storage_data.shard_index
        buckets      == _split_by_storage_plan(storage_plan, plan.items)
    IN  IF ~buckets.ok
        THEN WriteDataOutcome(FALSE, <<>>, buckets.error)
        ELSE WriteDataOutcome(FALSE,
                              FileQueue(buckets.value, HighestIndex(storage_plan), shard_index),
                              NoError)

write_data(plan) ==
    IF Len(plan.items) = 0
    THEN WriteDataOutcome(TRUE, <<>>, NoError)
    ELSE LET storage_data == Get(plan.storage_data)
             storage_plan == storage_data.fqn_to_index_mapping
             shard_index  == storage_data.shard_index
             buckets      == _split_by_storage_plan(storage_plan, plan.items)
         IN  IF ~buckets.ok
             THEN WriteDataOutcome(FALSE, <<>>, buckets.error)
             ELSE WriteDataOutcome(FALSE,
                                   FileQueue(buckets.value, HighestIndex(storage_plan),
                                             shard_index),
                                   NoError)

\* FsspecWriter._write_data: every task's items are serialized into one file
\* at the task's path; one WriteResult per item.
TensorDict(write_items) ==
    DictOf([i \in DOMAIN write_items |->
              <<write_items[i].index.fqn,
                resolve_data(write_items[i].proc, write_items[i].index.fqn)>>])

RECURSIVE WriteFiles(_, _)
WriteFiles(files, file_queue) ==
    IF file_queue = <<>> THEN files
    ELSE LET task == file_queue[1]
         IN  WriteFiles([f \in DOMAIN files \cup {task.path} |->
                            IF f = task.path THEN save(TensorDict(task.write_items))
                            ELSE files[f]],
                        Tail(file_queue))

RECURSIVE WriteResults(_)
WriteResults(file_queue) ==
    IF file_queue = <<>> THEN <<>>
    ELSE LET task == file_queue[1]
         IN  [i \in DOMAIN task.write_items |->
                 WriteResult(task.write_items[i].index.fqn, task.file_name,
                             resolve_data(task.write_items[i].proc,
                                          task.write_items[i].index.fqn).size)]
             \o WriteResults(Tail(file_queue))

\* finish with storage_md rebuilt for every process instead of updated
RECURSIVE FinishLoopRebuild(_, _, _)
FinishLoopRebuild(results, storage_md, total_size) ==
    IF results = <<>> THEN JsonFile(total_size, storage_md)
    ELSE LET wr_list == results[1]
         IN  FinishLoopRebuild(Tail(results),
                               DictOf([i \in DOMAIN wr_list |->
                                         <<wr_list[i].index.fqn,
                                           wr_list[i].storage_data.relative_path>>]),
                               total_size + SeqSum([i \in DOMAIN wr_list |->
                                                      wr_list[i].storage_data.length]))

\* finish: the manifest written in non-sharded mode
RECURSIVE FinishLoop(_, _, _)
FinishLoop(results, storage_md, total_size) ==
    IF results = <<>> THEN JsonFile(total_size, storage_md)
    ELSE LET wr_list == results[1]
         IN  FinishLoop(Tail(results),
                        DictUpdate(storage_md,
                                   DictOf([i \in DOMAIN wr_list |->
                                             <<wr_list[i].index.fqn,
                                               wr_list[i].storage_data.relative_path>>])),
                        total_size + SeqSum([i \in DOMAIN wr_list |->
                                               wr_list[i].storage_data.length]))

\* the manifest is written in sharded mode too
finish_always(sharded, files, results) ==
    LET metadata_path == concat_path(path, _metadata_fn)
    IN  [f \in DOMAIN files \cup {metadata_path} |->
            IF f = metadata_path THEN FinishLoop(results, <<>>, 0) ELSE files[f]]

finish(sharded, files, results) ==
    IF sharded THEN files
    ELSE LET metadata_path == concat_path(path, _metadata_fn)
         IN  [f \in DOMAIN files \cup {metadata_path} |->
                 IF f = metadata_path THEN FinishLoop(results, <<>>, 0) ELSE files[f]]

\* ------------------------------------------------------------ header parser
\* file_bytes.read(n) on what follows the stream position: at most n elements
Read(stream, n) == SubSeq(stream, 1, IF n <= Len(stream) THEN n ELSE Len(stream))

\* json.loads accepts the span: an object whose members are tensor names
IsJsonObject(span) ==
    /\ Len(span) >= 2
    /\ span[1] = LBRACE
    /\ span[Len(span)] = RBRACE
    /\ \A i \in 2..(Len(span) - 1) : span[i] \notin {LBRACE, RBRACE, PAYLOAD}

\* list(metadata.keys()): the member names, each once, in first-seen order
JsonKeys(span) ==
    LET members == SubSeq(span, 2, Len(span) - 1)
        d == DictOf([i \in DOMAIN members |-> <<members[i], TRUE>>])
    IN  [i \in DOMAIN d |-> d[i][1]]

StructError == ErrorValue("struct.error", "", 0, 0, 0)
JSONDecodeError == ErrorValue("JSONDecodeError", "", 0, 0, 0)

_get_safetensors_file_keys(file) ==
    LET header_len_bytes == Read(file.len_bytes, 8)
    IN  IF Len(header_len_bytes) # 8
        THEN Result(FALSE, <<>>, StructError)
        ELSE LET header_len  == FromLittleEndian(header_len_bytes)
                 header_json == Read(file.body, header_len)
             IN  IF ~IsJsonObject(header_json)
                 THEN Result(FALSE, <<>>, JSONDecodeError)
                 ELSE Result(TRUE, JsonKeys(header_json), NoError)

\* ------------------------------------------------------------------ reader
ValueError(found) == ErrorValue("ValueError", "", found, 0, 0)
FileNotFoundError == ErrorValue("FileNotFoundError", "", 0, 0, 0)
SafetensorError == ErrorValue("SafetensorError", "", 0, 0, 0)
AssertionError(fqn, target_size, source_size) ==
    ErrorValue("AssertionError", fqn, 0, target_size, source_size)

Metadata(state_dict_metadata, storage_data) ==
    [state_dict_metadata |-> state_dict_metadata, storage_data |-> storage_data]
NoMetadata == Metadata(<<>>, <<>>)

\* fs.ls(path): the paths of the directory's entries
ls(files, dir) == {f \in DOMAIN files : SubSeq(f, 1, Len(dir) + 1) = dir \o <<"/">>}

read_metadata(files) ==
    LET metadata_path == concat_path(path, _metadata_fn)
    IN  IF metadata_path \notin DOMAIN files
        THEN LET safetensors_files == {file \in ls(files, path) : endswith(file, SUFFIX)}
             IN  IF Cardinality(safetensors_files) # 1
                 THEN Result(FALSE, NoMetadata, ValueError(Cardinality(safetensors_files)))
                 ELSE LET file == CHOOSE f \in safetensors_files : TRUE
                          keys == _get_safetensors_file_keys(files[file])
                      IN  IF ~keys.ok
                          THEN Result(FALSE, NoMetadata, keys.error)
                          ELSE Result(TRUE,
                                      Metadata(keys.value,
                                               DictOf([i \in DOMAIN keys.value |->
                                                         <<keys.value[i], basename(file)>>])),
                                      NoError)
        ELSE LET weight_map == DictOf(files[metadata_path].weight_map)
             IN  Result(TRUE,
                        Metadata([i \in DOMAIN weight_map |-> weight_map[i][1]], weight_map),
                        NoError)

ReadItem(storage_fqn, dest_fqn) ==
    [storage_index |-> [fqn |-> storage_fqn], dest_index |-> [fqn |-> dest_fqn]]

Planner(is_hf, allow_tensor_resize) ==
    [is_hf |-> is_hf, allow_tensor_resize |-> allow_tensor_resize]

\* safetensors.torch.load(bytes): the tensors of a well-formed file
load(file) ==
    IF /\ Len(file.len_bytes) = 8
       /\ FromLittleEndian(file.len_bytes) <= Len(file.body)
       /\ IsJsonObject(Read(file.body, FromLittleEndian(file.len_bytes)))
    THEN Result(TRUE, file.tensors, NoError)
    ELSE Result(FALSE, <<>>, SafetensorError)

\* what read_data has done so far: the destination tensors, the committed
\* requests and the opened files in order, the exception raised if any,
\* whether a future was returned, and the opens, commits and closes in the
\* order they happened
ReadState(dest, committed, opened, error, returned, events) ==
    [dest |-> dest, committed |-> committed, opened |-> opened, error |-> error,
     returned |-> returned, events |-> events]

\* one step of read_data on the storage or the planner: create_stream(file)
\* entered ("open") or left ("close"), or commit_tensor(req, ...) ("commit")
Event(op, file_name, req) == [op |-> op, file |-> file_name, req |-> req]
NoReq == ReadItem("", "")

Raise(st, error) == ReadState(st.dest, st.committed, st.opened, error, FALSE, st.events)

\* leaving the with block of create_stream, normally or by an exception
Close(st, file_name) ==
    ReadState(st.dest, st.committed, st.opened, st.error, st.returned,
              Append(st.events, Event("close", file_name, NoReq)))

\* every item gets a group of its own
RECURSIVE GroupLoopNoMerge(_, _, _)
GroupLoopNoMerge(storage_data, items, per_file) ==
    IF items = <<>> THEN Result(TRUE, per_file, NoError)
    ELSE LET key == items[1].storage_index.fqn
         IN  IF ~DictHas(storage_data, key)
             THEN Result(FALSE, <<>>, KeyError(key))
             ELSE GroupLoopNoMerge(storage_data, Tail(items),
                                   Append(per_file,
                                          <<DictGet(storage_data, key), <<items[1]>>>>))

\* the item's file is looked up under the destination name
RECURSIVE GroupLoopByDest(_, _, _)
GroupLoopByDest(storage_data, items, per_file) ==
    IF items = <<>> THEN Result(TRUE, per_file, NoError)
    ELSE LET key == items[1].dest_index.fqn
         IN  IF ~DictHas(storage_data, key)
             THEN Result(FALSE, <<>>, KeyError(key))
             ELSE GroupLoopByDest(storage_data, Tail(items),
                                  BucketAdd(per_file, DictGet(storage_data, key), items[1]))

\* the first loop of read_data: per_file.setdefault(file_name, []).append(item)
RECURSIVE GroupLoop(_, _, _)
GroupLoop(storage_data, items, per_file) ==
    IF items = <<>> THEN Result(TRUE, per_file, NoError)
    ELSE LET key == items[1].storage_index.fqn
         IN  IF ~DictHas(storage_data, key)
             THEN Result(FALSE, <<>>, KeyError(key))
             ELSE GroupLoop(storage_data, Tail(items),
                            BucketAdd(per_file, DictGet(storage_data, key), items[1]))

\* target_tensor.copy_(tensor) after the resize or the size assertion
CopyInto(dest, fqn, tensor) == [dest EXCEPT ![fqn] = Tensor(tensor.size, tensor.data)]

\* the name read_data looks the tensor up by in the decoded file
LookupName(req) == req.dest_index.fqn

\* a request whose sizes differ is skipped where the read should stop
RECURSIVE ReqLoopSkip(_, _, _, _)
ReqLoopSkip(reqs, loaded_tensors, planner, st) ==
    IF reqs = <<>> THEN st
    ELSE LET req == reqs[1]
         IN  IF ~DictHas(loaded_tensors, LookupName(req))
             THEN Raise(st, KeyError(LookupName(req)))
             ELSE LET tensor == DictGet(loaded_tensors, LookupName(req))
                      target_tensor == st.dest[req.dest_index.fqn]
                  IN  IF ~(planner.is_hf /\ planner.allow_tensor_resize)
                         /\ target_tensor.size # tensor.size
                      THEN ReqLoopSkip(Tail(reqs), loaded_tensors, planner, st)
                      ELSE ReqLoopSkip(Tail(reqs), loaded_tensors, planner,
                                       ReadState(CopyInto(st.dest, req.dest_index.fqn, tensor),
                                                 Append(st.committed, req),
                                                 st.opened, st.error, st.returned,
                                                 Append(st.events,
                                                        Event("commit", <<>>, req))))

\* the loop over one file's requests
RECURSIVE ReqLoop(_, _, _, _)
ReqLoop(reqs, loaded_tensors, planner, st) ==
    IF reqs = <<>> THEN st
    ELSE LET req == reqs[1]
         IN  IF ~DictHas(loaded_tensors, LookupName(req))
             THEN Raise(st, KeyError(LookupName(req)))
             ELSE LET tensor == DictGet(loaded_tensors, LookupName(req))
                      target_tensor == st.dest[req.dest_index.fqn]
                  IN  IF ~(planner.is_hf /\ planner.allow_tensor_resize)
                         /\ target_tensor.size # tensor.size
                      THEN Raise(st, AssertionError(req.dest_index.fqn,
                                                    target_tensor.size, tensor.size))
                      ELSE ReqLoop(Tail(reqs), loaded_tensors, planner,
                                   ReadState(CopyInto(st.dest, req.dest_index.fqn, tensor),
                                             Append(st.committed, req),
                                             st.opened, st.error, st.returned,
                                             Append(st.events, Event("commit", <<>>, req))))

\* the loop over per_file
RECURSIVE FileLoop(_, _, _, _)
FileLoop(per_file, files, planner, st) ==
    IF per_file = <<>>
    THEN ReadState(st.dest, st.committed, st.opened, NoError, TRUE, st.events)
    ELSE LET file_name == per_file[1][1]
             reqs      == per_file[1][2]
             new_path  == concat_path(path, file_name)
         IN  IF new_path \notin DOMAIN files
             THEN Raise(st, FileNotFoundError)
             ELSE LET opened == ReadState(st.dest, st.committed,
                                          Append(st.opened, file_name),
                                          st.error, st.returned,
                                          Append(st.events, Event("open", file_name, NoReq)))
                      loaded == load(files[new_path])
                  IN  IF ~loaded.ok
                      THEN Raise(Close(opened, file_name), loaded.error)
                      ELSE LET after == Close(ReqLoop(reqs, loaded.value, planner, opened),
                                              file_name)
                           IN  IF after.error # NoError THEN after
                               ELSE FileLoop(Tail(per_file), files, planner, after)

read_data(storage_data, plan, planner, files, st) ==
    LET per_file == GroupLoop(storage_data, plan, <<>>)
    IN  IF ~per_file.ok THEN Raise(st, per_file.error)
        ELSE FileLoop(per_file.value, files, planner, st)

\* ------------------------------------------------------------------- state
VARIABLES
    fqn_to_index_mapping,   \* writer: self._fqn_to_index_mapping
    save_sharded,           \* writer: self._save_sharded
    plans,                  \* the planner's SavePlans, one per process, in rank order
    new_plans,              \* None, or what prepare_global_plan returned
    writer,                 \* per process: what its write_data call did
    files,                  \* the storage: path -> file content
    finished,               \* finish() has run
    load_plan,              \* the ReadItems of the load
    planner,                \* the load planner: its class and allow_tensor_resize
    metadata,               \* None, or what read_metadata returned or raised
    storage_data,           \* reader: self.storage_data
    reader,                 \* what read_data did (ReadState)
    rlog,                   \* the reader's methods called so far, in order
    name_call,              \* None, or one call of _gen_file_name: its arguments and result
    parse_call              \* None, or one call of _get_safetensors_file_keys

vars == <<fqn_to_index_mapping, save_sharded, plans, new_plans, writer, files, finished,
          load_plan, planner, metadata, storage_data, reader, rlog, name_call, parse_call>>

writer_vars == <<fqn_to_index_mapping, save_sharded, plans, new_plans, writer, finished>>
load_inputs == <<load_plan, planner>>
calls == <<name_call, parse_call>>

\* write_data of one process: status is "idle" before the call, "done" when it
\* returned a future (completed, holding results), "raised" when it raised
WriterState(status, file_queue, results, error) ==
    [status |-> status, file_queue |-> file_queue, results |-> results, error |-> error]

\* sequences without repetition over S, of length at most n
NoRep(q) == \A i, j \in DOMAIN q : i # j => q[i] # q[j]
RECURSIVE SeqsNoRep(_, _)
SeqsNoRep(S, n) ==
    IF n = 0 THEN {<<>>}
    ELSE LET shorter == SeqsNoRep(S, n - 1)
         IN  {q \in shorter \cup {Append(r, x) : r \in shorter, x \in S} : NoRep(q)}

PartialMaps == UNION {[D -> 1..MaxIndex] : D \in SUBSET Names}

ItemSeqs(p) == SeqsNoRep({WriteItem(n, p) : n \in Names}, MaxItems)

FreshDest == [n \in Names |-> Tensor(NameRank(n), 0)]

\* the load plan of a round trip: one ReadItem per written name, same name on
\* both sides, in the order the names appear in the save plans
RECURSIVE WrittenNames(_)
WrittenNames(ps) ==
    IF ps = <<>> THEN <<>>
    ELSE [i \in DOMAIN ps[1].items |-> <<ps[1].items[i].index.fqn, TRUE>>]
             \o WrittenNames(Tail(ps))
RoundTripPlan(ps) ==
    LET d == DictOf(WrittenNames(ps))
    IN  [i \in DOMAIN d |-> ReadItem(d[i][1], d[i][1])]

\* the checkpoint directory before the save: empty, or holding the manifest an
\* earlier save left behind
StaleManifest == JsonFile(0, <<<<"a", <<"o", "l", "d">>>>>>)
DirectoryChoices ==
    {<<>>, [f \in {concat_path(path, _metadata_fn)} |-> StaleManifest]}

InitReader ==
    /\ metadata = None
    /\ storage_data = <<>>
    /\ rlog = <<>>

\* no stand-alone call of a helper is under way
NoCalls ==
    /\ name_call = None
    /\ parse_call = None

Init ==
    /\ fqn_to_index_mapping \in {None} \cup {Some(m) : m \in PartialMaps}
    /\ save_sharded \in BOOLEAN
    /\ plans \in {[p \in Procs |-> SavePlan(its[p], None)] :
                    its \in {f \in [Procs -> UNION {ItemSeqs(p) : p \in Procs}] :
                               \A p \in Procs : f[p] \in ItemSeqs(p)}}
    /\ new_plans = None
    /\ writer = [p \in Procs |-> WriterState("idle", <<>>, <<>>, NoError)]
    /\ files \in DirectoryChoices
    /\ finished = FALSE
    /\ load_plan = RoundTripPlan(plans)
    /\ planner = Planner(FALSE, FALSE)
    /\ reader = ReadState(FreshDest, <<>>, <<>>, NoError, FALSE, <<>>)
    /\ InitReader
    /\ NoCalls

\* ----------------------------------------------------------------- actions
PrepareGlobalPlan ==
    /\ new_plans = None
    /\ new_plans' = Some(prepare_global_plan(fqn_to_index_mapping, save_sharded, plans))
    /\ UNCHANGED <<fqn_to_index_mapping, save_sharded, plans, writer, files, finished,
                   load_plan, planner, metadata, storage_data, reader, rlog, calls>>

WriteData(p) ==
    /\ new_plans # None
    /\ writer[p].status = "idle"
    /\ LET out == write_data(Get(new_plans)[p])
       IN  IF out.returned
           THEN /\ writer' = [writer EXCEPT ![p] = WriterState("done", <<>>, <<>>, NoError)]
                /\ files' = files
           ELSE IF out.error # NoError
           THEN /\ writer' = [writer EXCEPT ![p] = WriterState("raised", <<>>, <<>>, out.error)]
                /\ files' = files
           ELSE /\ writer' = [writer EXCEPT ![p] =
                                 WriterState("done", out.file_queue,
                                             WriteResults(out.file_queue), NoError)]
                /\ files' = WriteFiles(files, out.file_queue)
    /\ UNCHANGED <<fqn_to_index_mapping, save_sharded, plans, new_plans, finished,
                   load_plan, planner, metadata, storage_data, reader, rlog, calls>>

\* finish(metadata, results) with every process's results, in rank order
Finish ==
    /\ ~finished
    /\ \A p \in Procs : writer[p].status = "done"
    /\ files' = finish(save_sharded, files, [p \in Procs |-> writer[p].results])
    /\ finished' = TRUE
    /\ UNCHANGED <<fqn_to_index_mapping, save_sharded, plans, new_plans, writer,
                   load_plan, planner, metadata, storage_data, reader, rlog, calls>>

ReadMetadata ==
    /\ finished
    /\ rlog = <<>>
    /\ metadata' = Some(read_metadata(files))
    /\ rlog' = Append(rlog, "read_metadata")
    /\ UNCHANGED <<writer_vars, files, load_inputs, storage_data, reader, calls>>

\* StorageReader.set_up_storage_reader(metadata, is_coordinator)
SetUpStorageReader ==
    /\ rlog = <<"read_metadata">>
    /\ Get(metadata).ok
    /\ storage_data' = Get(metadata).value.storage_data
    /\ rlog' = Append(rlog, "set_up_storage_reader")
    /\ UNCHANGED <<writer_vars, files, load_inputs, metadata, reader, calls>>

ReadData ==
    /\ rlog # <<>>
    /\ rlog[Len(rlog)] # "read_data"
    /\ Get(metadata).ok
    /\ reader' = read_data(storage_data, load_plan, planner, files, reader)
    /\ rlog' = Append(rlog, "read_data")
    /\ UNCHANGED <<writer_vars, files, load_inputs, metadata, storage_data, calls>>

Next ==
    \/ PrepareGlobalPlan
    \/ \E p \in Procs : WriteData(p)
    \/ Finish
    \/ ReadMetadata
    \/ SetUpStorageReader
    \/ ReadData

Spec == Init /\ [][Next]_vars

\* ------------------------------------------------- loads of any directory
\* The reader on its own: the directory holds up to two safetensors files,
\* well-formed or not, a file that is no safetensors file, and a manifest or
\* none; the load plan and the destinations are any the planner can hand over.
FileName1 == _gen_file_name(1, 2, None)
FileName2 == _gen_file_name(2, 2, None)
OtherPath == concat_path(path, <<"R", "E", "A", "D", "M", "E">>)

WellFormedFiles ==
    { save(<< <<"a", Tensor(1, 31)>> >>),
      save(<< <<"a", Tensor(1, 41)>>, <<"b", Tensor(2, 42)>> >>),
      save(<< <<"b", Tensor(1, 52)>>, <<"a", Tensor(2, 51)>> >>) }

MalformedFiles ==
    { \* fewer than 8 bytes in the stream
      StFile(<<3, 0, 0>>, <<>>, <<>>),
      \* header_len runs past the end of the stream, into the payload
      StFile(LittleEndian(5, 8), <<LBRACE, "a", RBRACE, PAYLOAD>>,
             << <<"a", Tensor(1, 61)>> >>),
      \* header_len runs past the end of a stream that ends with the header
      StFile(LittleEndian(256, 8), <<LBRACE, RBRACE>>, <<>>),
      \* the header span is no JSON
      StFile(LittleEndian(2, 8), <<PAYLOAD, PAYLOAD>>, <<>>) }

FileChoices == {None} \cup {Some(f) : f \in WellFormedFiles \cup MalformedFiles}

WeightMaps ==
    {DictOf(<< <<"a", m["a"]>>, <<"b", m["b"]>> >>) : m \in [Names -> {FileName1, FileName2}]}
        \cup { << <<"a", FileName1>> >> }

ManifestChoices == {None} \cup {Some(JsonFile(3, w)) : w \in WeightMaps}

Directory(f1, f2, manifest) ==
    LET P1 == concat_path(path, FileName1)
        P2 == concat_path(path, FileName2)
        PM == concat_path(path, _metadata_fn)
        present == {OtherPath} \cup (IF f1 # None THEN {P1} ELSE {})
                               \cup (IF f2 # None THEN {P2} ELSE {})
                               \cup (IF manifest # None THEN {PM} ELSE {})
    IN  [f \in present |->
            IF f = P1 THEN Get(f1)
            ELSE IF f = P2 THEN Get(f2)
            ELSE IF f = PM THEN Get(manifest)
            ELSE JsonFile(0, <<>>)]

DestChoices ==
    { [n \in Names |-> Tensor(1, 0)], [n \in Names |-> Tensor(NameRank(n), 0)] }

PlannerChoices == {Planner(FALSE, FALSE), Planner(TRUE, FALSE), Planner(TRUE, TRUE)}

InitRead ==
    /\ fqn_to_index_mapping = None
    /\ save_sharded = FALSE
    /\ plans = [p \in Procs |-> SavePlan(<<>>, None)]
    /\ new_plans = None
    /\ writer = [p \in Procs |-> WriterState("idle", <<>>, <<>>, NoError)]
    /\ finished = TRUE
    /\ files \in {Directory(f1, f2, m) :
                    f1 \in FileChoices, f2 \in FileChoices, m \in ManifestChoices}
    /\ load_plan \in SeqsNoRep({ReadItem(s, d) : s \in Names, d \in Names}, MaxReadItems)
    /\ planner \in PlannerChoices
    /\ \E dest \in DestChoices : reader = ReadState(dest, <<>>, <<>>, NoError, FALSE, <<>>)
    /\ InitReader
    /\ NoCalls

NextRead ==
    \/ ReadMetadata
    \/ SetUpStorageReader
    \/ ReadData

SpecRead == InitRead /\ [][NextRead]_vars

\* ------------------------------------------------ the helpers on their own
\* Nothing is being saved or loaded while a helper is called by itself.
NoSave ==
    /\ fqn_to_index_mapping = None
    /\ save_sharded = FALSE
    /\ plans = [p \in Procs |-> SavePlan(<<>>, None)]
    /\ new_plans = None
    /\ writer = [p \in Procs |-> WriterState("idle", <<>>, <<>>, NoError)]
    /\ files = <<>>
    /\ finished = FALSE

NoLoad ==
    /\ load_plan = <<>>
    /\ planner = Planner(FALSE, FALSE)
    /\ reader = ReadState(FreshDest, <<>>, <<>>, NoError, FALSE, <<>>)
    /\ InitReader

\* _gen_file_name(index, largest_index, shard_index) for numbers of one to
\* MaxDigits decimal digits: the smallest and the largest of every length
MaxDigits == 6

RECURSIVE Pow10(_)
Pow10(k) == IF k = 0 THEN 1 ELSE 10 * Pow10(k - 1)

NumberChoices == UNION {{Pow10(k - 1), Pow10(k) - 1} : k \in 1..MaxDigits}

NameCall(index, largest_index, shard_index, result) ==
    [index |-> index, largest_index |-> largest_index, shard_index |-> shard_index,
     result |-> result]

InitName ==
    /\ NoSave
    /\ NoLoad
    /\ parse_call = None
    /\ name_call \in {NameCall(i, l, s, None) :
                        i \in NumberChoices, l \in NumberChoices,
                        s \in {None} \cup {Some(n) : n \in NumberChoices}}

GenFileName ==
    /\ name_call.result = None
    /\ name_call' = [name_call EXCEPT !.result =
                        Some(_gen_file_name(name_call.index, name_call.largest_index,
                                            name_call.shard_index))]
    /\ UNCHANGED <<writer_vars, files, load_inputs, metadata, storage_data, reader, rlog,
                   parse_call>>

NextName == GenFileName

SpecName == InitName /\ [][NextName]_vars

\* _get_safetensors_file_keys(file_bytes) on any stream of at most 8 + MaxBody
\* bytes: a length prefix cut short, or a whole prefix declaring 0 to MaxBody + 1
\* header bytes in front of any bytes
MaxBody == 4

ByteChoices == {LBRACE, RBRACE, PAYLOAD} \cup Names

RECURSIVE SeqsUpTo(_, _)
SeqsUpTo(S, n) ==
    IF n = 0 THEN {<<>>}
    ELSE LET shorter == SeqsUpTo(S, n - 1)
         IN  shorter \cup {Append(q, x) : q \in shorter, x \in S}

StreamChoices ==
    {StFile(LittleEndian(1, k), <<>>, <<>>) : k \in 0..7}
        \cup {StFile(LittleEndian(n, 8), body, <<>>) :
                n \in 0..(MaxBody + 1), body \in SeqsUpTo(ByteChoices, MaxBody)}

ParseCall(file, result) == [file |-> file, result |-> result]

InitParse ==
    /\ NoSave
    /\ NoLoad
    /\ name_call = None
    /\ parse_call \in {ParseCall(f, None) : f \in StreamChoices}

GetSafetensorsFileKeys ==
    /\ parse_call.result = None
    /\ parse_call' = [parse_call EXCEPT !.result =
                         Some(_get_safetensors_file_keys(parse_call.file))]
    /\ UNCHANGED <<writer_vars, files, load_inputs, metadata, storage_data, reader, rlog,
                   name_call>>

NextParse == GetSafetensorsFileKeys

SpecParse == InitParse /\ [][NextParse]_vars

\* prepare_global_plan(plans) on any list of zero to NumProcs plans
PlanLists ==
    UNION {{q \in [1..n -> UNION {ItemSeqs(p) : p \in Procs}] :
              \A i \in 1..n : q[i] \in ItemSeqs(i)} : n \in 0..NumProcs}

InitPlan ==
    /\ fqn_to_index_mapping \in {None} \cup {Some(m) : m \in PartialMaps}
    /\ save_sharded \in BOOLEAN
    /\ plans \in {[i \in DOMAIN q |-> SavePlan(q[i], None)] : q \in PlanLists}
    /\ new_plans = None
    /\ writer = [p \in Procs |-> WriterState("idle", <<>>, <<>>, NoError)]
    /\ files = <<>>
    /\ finished = FALSE
    /\ NoLoad
    /\ NoCalls

NextPlan == PrepareGlobalPlan

SpecPlan == InitPlan /\ [][NextPlan]_vars

\* ================================================================== claims
ManifestPath == concat_path(path, _metadata_fn)

RECURSIVE Flatten(_)
Flatten(lists) == IF lists = <<>> THEN <<>> ELSE lists[1] \o Flatten(Tail(lists))

AllResults == Flatten([p \in Procs |-> writer[p].results])
ResultNames == {AllResults[i].index.fqn : i \in DOMAIN AllResults}
LastResultOf(fqn) ==
    AllResults[SetMax({i \in DOMAIN AllResults : AllResults[i].index.fqn = fqn})]

ManifestWritten == finished /\ ~save_sharded /\ ManifestPath \in DOMAIN files

\* C1 as stated: after finish() in non-sharded mode on N results in total, the
\* manifest's weight_map has exactly N keys, its key set is the union of the
\* results' item names, each key maps to its result's relative path, and
\* metadata.total_size is the sum of the N lengths.
C1_Original ==
    (finished /\ ~save_sharded) =>
        /\ ManifestPath \in DOMAIN files
        /\ LET manifest == files[ManifestPath]
           IN  /\ Len(manifest.weight_map) = Len(AllResults)
               /\ DictKeys(manifest.weight_map) = ResultNames
               /\ \A i \in DOMAIN AllResults :
                      DictGet(manifest.weight_map, AllResults[i].index.fqn)
                          = AllResults[i].storage_data.relative_path
               /\ manifest.total_size
                      = SeqSum([i \in DOMAIN AllResults |->
                                  AllResults[i].storage_data.length])

\* C1 as amended: after finish() in non-sharded mode on N results in total, the
\* manifest's weight_map has one key per distinct item name among the results
\* (N keys when the names are pairwise distinct), its key set is the union of
\* the results' item names, each key maps to the relative path of the last
\* result bearing that name, and metadata.total_size is the sum of the N
\* lengths.
C1_ManifestCompleteness ==
    (finished /\ ~save_sharded) =>
        /\ ManifestPath \in DOMAIN files
        /\ LET manifest == files[ManifestPath]
           IN  /\ manifest.kind = "json"
               /\ Len(manifest.weight_map) = Cardinality(ResultNames)
               /\ NoRep([i \in DOMAIN manifest.weight_map |-> manifest.weight_map[i][1]])
               /\ NoRep([i \in DOMAIN AllResults |-> AllResults[i].index.fqn])
                      => Len(manifest.weight_map) = Len(AllResults)
               /\ DictKeys(manifest.weight_map) = ResultNames
               /\ \A n \in ResultNames :
                      DictGet(manifest.weight_map, n)
                          = LastResultOf(n).storage_data.relative_path
               /\ manifest.total_size
                      = SeqSum([i \in DOMAIN AllResults |->
                                  AllResults[i].storage_data.length])

\* C1 witness: a manifest written from the results of two processes that both
\* wrote items, into more than one file
C1_Witness ==
    /\ ManifestWritten
    /\ \A p \in Procs : writer[p].results # <<>>
    /\ Cardinality({AllResults[i].storage_data.relative_path : i \in DOMAIN AllResults}) > 1
    /\ Len(AllResults) > Cardinality(ResultNames)

\* ---- the writer's claims
PlanOf(p) == Get(new_plans)[p]
ItemsOf(p) == plans[p].items
ItemNames(p) == {ItemsOf(p)[i].index.fqn : i \in DOMAIN ItemsOf(p)}
Called(p) == new_plans # None /\ writer[p].status # "idle"
HasMap == fqn_to_index_mapping # None
TheMap == Get(fqn_to_index_mapping)
QueueOf(p) == writer[p].file_queue

\* a number below 10 as the five characters of a name's field
FiveDigits(k) == <<"0", "0", "0", "0", Digit(k)>>
\* the fields of a generated name, read off its characters
ShardField(name) == SubSeq(name, 7, 11)
IndexField(name) == IF name[1] = "s" THEN SubSeq(name, 19, 23) ELSE SubSeq(name, 7, 11)
CountField(name) == IF name[1] = "s" THEN SubSeq(name, 28, 32) ELSE SubSeq(name, 16, 20)

\* the (task, position) places of the queue of p that hold the item
PlacesOf(p, item) ==
    {<<t, j>> \in (DOMAIN QueueOf(p)) \X (1..MaxItems + 1) :
        j \in DOMAIN QueueOf(p)[t].write_items /\ QueueOf(p)[t].write_items[j] = item}

\* the tensors process p holds (what a file written by p contains)
DataOf(p) == {resolve_data(p, n).data : n \in Names}
FilesHoldDataOf(p) ==
    \E f \in DOMAIN files : \E i \in DOMAIN files[f].tensors :
        files[f].tensors[i][2].data \in DataOf(p)

\* C2: with an explicit file-assignment map and a non-empty plan whose item
\* names are all in the map, write_data puts every WriteItem in exactly the
\* bucket (file) whose index is the map's value for its name; the buckets
\* together hold the plan's items, each once, and no bucket is empty.
C2_Bucketing ==
    \A p \in Procs :
        (Called(p) /\ HasMap /\ ItemsOf(p) # <<>> /\ ItemNames(p) \subseteq DOMAIN TheMap) =>
            /\ writer[p].status = "done"
            /\ \A i \in DOMAIN ItemsOf(p) :
                   /\ Cardinality(PlacesOf(p, ItemsOf(p)[i])) = 1
                   /\ \A pl \in PlacesOf(p, ItemsOf(p)[i]) :
                          IndexField(QueueOf(p)[pl[1]].file_name)
                              = FiveDigits(TheMap[ItemsOf(p)[i].index.fqn])
            /\ SeqSum([t \in DOMAIN QueueOf(p) |-> Len(QueueOf(p)[t].write_items)])
                   = Len(ItemsOf(p))
            /\ \A t \in DOMAIN QueueOf(p) : QueueOf(p)[t].write_items # <<>>
            /\ \A t, u \in DOMAIN QueueOf(p) :
                   t # u => QueueOf(p)[t].file_name # QueueOf(p)[u].file_name

\* C2 witness: a plan of two items that the map sends to the same file
C2_Witness ==
    \E p \in Procs :
        /\ Called(p) /\ HasMap /\ writer[p].status = "done"
        /\ Len(ItemsOf(p)) = 2
        /\ Len(QueueOf(p)) = 1
        /\ Len(QueueOf(p)[1].write_items) = 2

\* C7: with an explicit file-assignment map, a non-empty plan holding an item
\* whose name is absent from the map makes write_data fail with an error;
\* no write task is enqueued and no file is written for any item of the plan.
C7_MissingAssignmentFailsFast ==
    \A p \in Procs :
        (Called(p) /\ HasMap /\ ItemsOf(p) # <<>> /\ ~(ItemNames(p) \subseteq DOMAIN TheMap)) =>
            /\ writer[p].status = "raised"
            /\ writer[p].error.type = "KeyError"
            /\ writer[p].error.fqn \in ItemNames(p) \ DOMAIN TheMap
            /\ QueueOf(p) = <<>>
            /\ writer[p].results = <<>>
            /\ ~FilesHoldDataOf(p)

\* C7 witness: the plan's first item is in the map, its second is not
C7_Witness ==
    \E p \in Procs :
        /\ Called(p) /\ HasMap /\ writer[p].status = "raised"
        /\ Len(ItemsOf(p)) = 2
        /\ ItemsOf(p)[1].index.fqn \in DOMAIN TheMap
        /\ ItemsOf(p)[2].index.fqn \notin DOMAIN TheMap

\* C9: write_data on a plan with zero items returns a completed handle whose
\* result is the empty list, enqueues no write task and creates or changes no
\* file, whatever storage_data the plan carries.
C9_EmptyPlan ==
    [][\A p \in Procs :
           (writer[p].status = "idle" /\ writer'[p].status # "idle" /\ ItemsOf(p) = <<>>) =>
               /\ writer'[p] = WriterState("done", <<>>, <<>>, NoError)
               /\ files' = files]_vars

\* C9 witness: an empty plan written in sharded mode with a map attached
C9_Witness ==
    \E p \in Procs :
        /\ Called(p) /\ writer[p].status = "done" /\ ItemsOf(p) = <<>>
        /\ Get(PlanOf(p).storage_data).fqn_to_index_mapping # None
        /\ Get(PlanOf(p).storage_data).shard_index # None

\* the bucket indices of the plan of p, and a task's bucket index
OwnIndices(p) == {TheMap[n] : n \in ItemNames(p)}
TaskIndex(task) == IF HasMap THEN TheMap[task.write_items[1].index.fqn] ELSE 1

ShardedNameIs(name, shard, index, count) ==
    name = <<"s", "h", "a", "r", "d", "-">> \o FiveDigits(shard)
               \o <<"-", "m", "o", "d", "e", "l", "-">> \o FiveDigits(index)
               \o <<"-", "o", "f", "-">> \o FiveDigits(count)
               \o <<".", "s", "a", "f", "e", "t", "e", "n", "s", "o", "r", "s">>

\* C10 as stated: in sharded mode every file name of process p is
\* shard-SSSSS-model-IIIII-of-NNNNN.safetensors with SSSSS the 1-based shard
\* index of p, IIIII the bucket's file index and NNNNN the highest file index
\* among the buckets of p's own items.
C10_Original ==
    \A p \in Procs :
        (Called(p) /\ save_sharded /\ writer[p].status = "done") =>
            \A t \in DOMAIN QueueOf(p) :
                ShardedNameIs(QueueOf(p)[t].file_name, p, TaskIndex(QueueOf(p)[t]),
                              IF HasMap THEN SetMax(OwnIndices(p)) ELSE 1)

\* C10 as amended: in sharded mode every file name of process p is
\* shard-SSSSS-model-IIIII-of-NNNNN.safetensors with SSSSS the 1-based shard
\* index of p, IIIII the bucket's file index and NNNNN the highest file index
\* of the whole assignment map (1 without a map).
C10_ShardedFileNaming ==
    \A p \in Procs :
        (Called(p) /\ save_sharded /\ writer[p].status = "done") =>
            \A t \in DOMAIN QueueOf(p) :
                ShardedNameIs(QueueOf(p)[t].file_name, p, TaskIndex(QueueOf(p)[t]),
                              IF HasMap
                              THEN SetMax({TheMap[n] : n \in DOMAIN TheMap})
                              ELSE 1)

\* C10 witness: a sharded write of a plan whose own highest index is below
\* the map's highest index
C10_Witness ==
    \E p \in Procs :
        /\ Called(p) /\ save_sharded /\ writer[p].status = "done" /\ HasMap
        /\ QueueOf(p) # <<>>
        /\ SetMax(OwnIndices(p)) < SetMax({TheMap[n] : n \in DOMAIN TheMap})

\* ---- the reader's claims
FullLoad == rlog = <<"read_metadata", "set_up_storage_reader", "read_data">>
ReadDone == rlog # <<>> /\ rlog[Len(rlog)] = "read_data"
ResizeOn == planner.is_hf /\ planner.allow_tensor_resize

UniqueNames == \A p, q \in Procs : p # q => ItemNames(p) \cap ItemNames(q) = {}
FileHolds(f, n) == \E i \in DOMAIN files[f].tensors : files[f].tensors[i][1] = n

\* C3: items with unique names saved in single-file mode (no assignment map,
\* non-sharded) through prepare_global_plan, write_data and finish, then
\* loaded (read_metadata, set_up_storage_reader, read_data) into fresh
\* destinations of the same shapes: every destination holds the content
\* written under its name, and every written name resolves to a file that
\* contains it.
C3_RoundTrip ==
    (~HasMap /\ ~save_sharded /\ UniqueNames /\ FullLoad) =>
        /\ reader.returned
        /\ reader.error = NoError
        /\ \A p \in Procs : \A n \in ItemNames(p) :
               /\ reader.dest[n] = resolve_data(p, n)
               /\ DictHas(storage_data, n)
               /\ concat_path(path, DictGet(storage_data, n)) \in DOMAIN files
               /\ FileHolds(concat_path(path, DictGet(storage_data, n)), n)

\* C4: if read_data fails on any item of the plan, no item of the plan has
\* been copied into its destination or committed.
C4_NoPartialLoad ==
    (ReadDone /\ reader.error # NoError) =>
        /\ reader.committed = <<>>
        /\ \A n \in Names : reader.dest[n].data = 0

\* the file an item's source name resolves to, and the items in the order
\* read_data handles them: file by file, files in order of first use
SrcKnown(r) == DictHas(storage_data, r.storage_index.fqn)
AllSrcKnown == \A i \in DOMAIN load_plan : SrcKnown(load_plan[i])
FileOfItem(r) == DictGet(storage_data, r.storage_index.fqn)
PathOfItem(r) == concat_path(path, FileOfItem(r))
FirstUse(f) ==
    CHOOSE i \in DOMAIN load_plan :
        /\ FileOfItem(load_plan[i]) = f
        /\ \A j \in DOMAIN load_plan : FileOfItem(load_plan[j]) = f => i <= j
Before(i, j) ==
    LET fi == FirstUse(FileOfItem(load_plan[i]))
        fj == FirstUse(FileOfItem(load_plan[j]))
    IN  fi < fj \/ (fi = fj /\ i < j)
HandlingOrder ==
    [k \in DOMAIN load_plan |->
        load_plan[CHOOSE i \in DOMAIN load_plan :
                      Cardinality({j \in DOMAIN load_plan : Before(j, i)}) = k - 1]]

Loadable(f) == f \in DOMAIN files /\ files[f] \in WellFormedFiles
\* the decoded tensor read_data takes as the item's source
Reached(r) == Loadable(PathOfItem(r)) /\ FileHolds(PathOfItem(r), r.dest_index.fqn)
TakenTensor(r) == DictGet(files[PathOfItem(r)].tensors, r.dest_index.fqn)
\* the index of the last committed request for destination n
LastCommit(n) ==
    SetMax({i \in DOMAIN reader.committed : reader.committed[i].dest_index.fqn = n})
HasCommit(n) == \E i \in DOMAIN reader.committed : reader.committed[i].dest_index.fqn = n

C5_ResizeCase ==
    /\ ReadDone /\ AllSrcKnown /\ ResizeOn /\ reader.returned
    /\ \E i \in DOMAIN reader.committed :
           LET r == reader.committed[i]
           IN  /\ LastCommit(r.dest_index.fqn) = i
               /\ reader.dest[r.dest_index.fqn] = TakenTensor(r)
               /\ TakenTensor(r).size = 2

\* the tensor stored under the item's source name in the file that name maps to
SourceTensor(r) == DictGet(files[PathOfItem(r)].tensors, r.storage_index.fqn)

\* C6: for every ReadItem, also one whose destination name differs from its
\* source name, read_data opens the file the source name maps to and copies
\* into the destination the tensor stored in that file under the source name.
C6_SourceNameResolution ==
    (ReadDone /\ AllSrcKnown) =>
        /\ \A i \in DOMAIN reader.committed :
               LET r == reader.committed[i]
               IN  /\ FileOfItem(r) \in Range(reader.opened)
                   /\ FileHolds(PathOfItem(r), r.storage_index.fqn)
                   /\ LastCommit(r.dest_index.fqn) = i =>
                          reader.dest[r.dest_index.fqn].data = SourceTensor(r).data
        /\ (\A i \in DOMAIN load_plan :
               /\ Loadable(PathOfItem(load_plan[i]))
               /\ FileHolds(PathOfItem(load_plan[i]), load_plan[i].storage_index.fqn)
               /\ ResizeOn)
           => (reader.returned /\ Len(reader.committed) = Len(load_plan))

\* ---- read_metadata without a manifest
StPaths == {concat_path(path, FileName1), concat_path(path, FileName2)}
Listed == StPaths \cap DOMAIN files
TheListed == CHOOSE f \in Listed : TRUE
BaseNameOf(f) == IF f = concat_path(path, FileName1) THEN FileName1 ELSE FileName2
ManifestAbsent == ManifestPath \notin DOMAIN files
\* the files whose first 8 bytes give a length and whose header span is JSON
HeaderParses(file) ==
    \/ file \in WellFormedFiles
    \/ file = StFile(LittleEndian(256, 8), <<LBRACE, RBRACE>>, <<>>)
HeaderKeySet(file) == {file.tensors[i][1] : i \in DOMAIN file.tensors}

FallbackMapIsHeader(md, f) ==
    /\ DictKeys(md.storage_data) = HeaderKeySet(files[f])
    /\ Range(md.state_dict_metadata) = HeaderKeySet(files[f])
    /\ Len(md.storage_data) = Cardinality(HeaderKeySet(files[f]))
    /\ \A n \in HeaderKeySet(files[f]) : DictGet(md.storage_data, n) = BaseNameOf(f)

\* C8 as stated: without a manifest, read_metadata succeeds if and only if the
\* directory lists exactly one .safetensors file; on success the map's keys
\* are that file's header keys, each mapped to the file's base name; with
\* zero or several such files it fails with a configuration error and returns
\* no metadata.
C8_Original ==
    (ManifestAbsent /\ metadata # None) =>
        /\ Get(metadata).ok <=> Cardinality(Listed) = 1
        /\ Get(metadata).ok => FallbackMapIsHeader(Get(metadata).value, TheListed)
        /\ Cardinality(Listed) # 1 =>
               /\ Get(metadata).error = ValueError(Cardinality(Listed))
               /\ Get(metadata).value = NoMetadata

\* C8 as amended: without a manifest, read_metadata fails with a
\* configuration error and returns no metadata if and only if the directory
\* lists zero or several .safetensors files; with exactly one it succeeds if
\* and only if that file's header parses (an 8-byte length and a JSON header
\* span), and fails with the parser's error otherwise; on success the map's
\* keys are that file's header keys, each mapped to the file's base name.
C8_FallbackMetadata ==
    (ManifestAbsent /\ metadata # None) =>
        /\ Get(metadata).error.type = "ValueError" <=> Cardinality(Listed) # 1
        /\ Cardinality(Listed) # 1 =>
               /\ ~Get(metadata).ok
               /\ Get(metadata).error = ValueError(Cardinality(Listed))
               /\ Get(metadata).value = NoMetadata
        /\ Cardinality(Listed) = 1 =>
               /\ Get(metadata).ok <=> HeaderParses(files[TheListed])
               /\ Get(metadata).ok => FallbackMapIsHeader(Get(metadata).value, TheListed)
               /\ ~Get(metadata).ok =>
                      /\ Get(metadata).error.type \in {"struct.error", "JSONDecodeError"}
                      /\ Get(metadata).value = NoMetadata

\* C8 witness: no manifest, one .safetensors file beside a file of another
\* kind, and a map of two names to that file
C8_Witness ==
    /\ ManifestAbsent /\ metadata # None
    /\ Cardinality(Listed) = 1
    /\ Cardinality(DOMAIN files) = 2
    /\ Get(metadata).ok
    /\ Len(Get(metadata).value.storage_data) = 2


\* ----------------------------------------------------------------- C11
\* The numeric fields of a file name are its maximal runs of decimal digits.
IsDigit(c) == c \in {"0", "1", "2", "3", "4", "5", "6", "7", "8", "9"}

RunStarts(s) == {i \in DOMAIN s : IsDigit(s[i]) /\ (i = 1 \/ ~IsDigit(s[i - 1]))}
RunEnd(s, i) ==
    CHOOSE j \in i..Len(s) :
        /\ \A k \in i..j : IsDigit(s[k])
        /\ (j = Len(s) \/ ~IsDigit(s[j + 1]))
DigitRuns(s) ==
    [k \in 1..Cardinality(RunStarts(s)) |->
        LET i == CHOOSE x \in RunStarts(s) :
                    Cardinality({y \in RunStarts(s) : y < x}) = k - 1
        IN  SubSeq(s, i, RunEnd(s, i))]

DigitValue(c) == CHOOSE d \in 0..9 : Digit(d) = c
RECURSIVE NumeralValue(_)
NumeralValue(r) ==
    IF r = <<>> THEN 0
    ELSE 10 * NumeralValue(SubSeq(r, 1, Len(r) - 1)) + DigitValue(r[Len(r)])

RECURSIVE NumDigits(_)
NumDigits(n) == IF n < 10 THEN 1 ELSE 1 + NumDigits(n \div 10)

Skeleton(s) == SelectSeq(s, LAMBDA c : ~IsDigit(c))

NameGenerated == name_call.result # None
GeneratedName == Get(name_call.result)
NameNumbers ==
    IF name_call.shard_index = None
    THEN <<name_call.index, name_call.largest_index>>
    ELSE <<Get(name_call.shard_index), name_call.index, name_call.largest_index>>

\* C11 as stated: every numeric field of the name _gen_file_name produced is
\* exactly 5 characters long, whatever the magnitude of the number.
C11_Original ==
    NameGenerated =>
        \A k \in DOMAIN DigitRuns(GeneratedName) : Len(DigitRuns(GeneratedName)[k]) = 5

\* C11 amended: the name is the template (with the shard prefix iff a shard
\* index is given) around the fields shard, index, highest index in that order;
\* each field is the decimal numeral of its number, left-padded with zeros to 5
\* characters when the number is below 100000 and unpadded, hence longer than
\* 5 characters, when it is not.
C11_FixedWidthNaming ==
    NameGenerated =>
        LET runs == DigitRuns(GeneratedName)
        IN  /\ Len(runs) = Len(NameNumbers)
            /\ \A k \in DOMAIN runs :
                  /\ NumeralValue(runs[k]) = NameNumbers[k]
                  /\ Len(runs[k]) = IF NameNumbers[k] < Pow10(5) THEN 5
                                    ELSE NumDigits(NameNumbers[k])
            /\ Skeleton(GeneratedName) =
                  IF name_call.shard_index = None
                  THEN <<"m", "o", "d", "e", "l", "-", "-", "o", "f", "-",
                         ".", "s", "a", "f", "e", "t", "e", "n", "s", "o", "r", "s">>
                  ELSE <<"s", "h", "a", "r", "d", "-", "-", "m", "o", "d", "e", "l", "-",
                         "-", "o", "f", "-",
                         ".", "s", "a", "f", "e", "t", "e", "n", "s", "o", "r", "s">>

\* a sharded name whose index has six digits and whose other fields are padded
C11_Witness ==
    /\ NameGenerated
    /\ name_call.shard_index # None
    /\ Get(name_call.shard_index) < 10
    /\ name_call.index >= Pow10(5)
    /\ name_call.largest_index = 99

\* ----------------------------------------------------------------- C12
Parsed == parse_call.result # None
ParseResult == Get(parse_call.result)
PrefixWhole == Len(parse_call.file.len_bytes) = 8
DeclaredLen == FromLittleEndian(parse_call.file.len_bytes)
Remaining == parse_call.file.body
DeclaredSpan == SubSeq(Remaining, 1, DeclaredLen)
IsObjectOfNames(span) ==
    /\ Len(span) >= 2
    /\ span[1] = LBRACE
    /\ span[Len(span)] = RBRACE
    /\ \A i \in 2..(Len(span) - 1) : span[i] \in Names
MemberNames(span) == {span[i] : i \in 2..(Len(span) - 1)}

\* C12: _get_safetensors_file_keys fails when the stream has fewer than 8
\* bytes, when the declared header length exceeds the bytes remaining after the
\* prefix, and when the header span is not valid JSON; otherwise it returns the
\* top-level keys of the JSON object in exactly header_len bytes after the prefix.
C12_HeaderParserErrors ==
    Parsed =>
        IF ~PrefixWhole THEN ~ParseResult.ok
        ELSE IF DeclaredLen > Len(Remaining) THEN ~ParseResult.ok
        ELSE IF ~IsObjectOfNames(DeclaredSpan) THEN ~ParseResult.ok
        ELSE /\ ParseResult.ok
             /\ Range(ParseResult.value) = MemberNames(DeclaredSpan)
             /\ \A i, j \in DOMAIN ParseResult.value :
                   ParseResult.value[i] = ParseResult.value[j] => i = j

\* ----------------------------------------------------------------- C13
Planned == new_plans # None
GlobalPlans == Get(new_plans)

\* C13: prepare_global_plan returns as many plans as it was given, in the same
\* order, also for no plans and for plans without items; the plan at 1-based
\* position i carries shard_index = i iff the writer is sharded, carries the
\* caller's assignment map unchanged iff one was supplied, and keeps the input
\* plan's items; the input plans are left as they were.
C13_GlobalPlanningAnnotations ==
    Planned =>
        /\ Len(GlobalPlans) = Len(plans)
        /\ \A i \in 1..Len(plans) :
              /\ GlobalPlans[i].items = plans[i].items
              /\ GlobalPlans[i].storage_data # None
              /\ LET sd == Get(GlobalPlans[i].storage_data)
                 IN  /\ save_sharded => sd.shard_index = <<i>>
                     /\ ~save_sharded => sd.shard_index = <<>>
                     /\ sd.fqn_to_index_mapping = fqn_to_index_mapping
              /\ plans[i].storage_data = None

\* sharded and with a map: a plan without items in front of one with items
C13_Witness ==
    /\ Planned
    /\ save_sharded
    /\ fqn_to_index_mapping # None
    /\ Len(plans) = 2
    /\ plans[1].items = <<>>
    /\ plans[2].items # <<>>
    /\ Get(GlobalPlans[2].storage_data).shard_index = <<2>>

\* ----------------------------------------------------------------- C14
\* C14: finish() in sharded mode leaves the checkpoint directory exactly as it
\* was: it creates no manifest and does not overwrite one that is there.
C14_ShardedFinalizationWritesNothing ==
    [][(~finished /\ finished' /\ save_sharded) => files' = files]_vars

\* sharded finish() after files were written, the earlier manifest still there
C14_Witness ==
    /\ finished
    /\ save_sharded
    /\ \E p \in Procs : writer[p].results # <<>>
    /\ ManifestPath \in DOMAIN files
    /\ files[ManifestPath] = StaleManifest

\* ----------------------------------------------------------------- C15
Events == reader.events
OpenAt(i) == Events[i].op = "open"
\* the file whose stream is entered at event i or was last entered before it
CurrentFile(i) == Events[SetMax({j \in 1..i : OpenAt(j)})].file
\* the files of the requested items, each once, in the order the plan first
\* names them
RequestedFiles == {FileOfItem(load_plan[i]) : i \in DOMAIN load_plan}
FilesInOrder ==
    [k \in 1..Cardinality(RequestedFiles) |->
        CHOOSE f \in RequestedFiles :
            Cardinality({g \in RequestedFiles : FirstUse(g) < FirstUse(f)}) = k - 1]
OpenedInOrder ==
    LET opens == SelectSeq(Events, LAMBDA e : e.op = "open")
    IN  [k \in DOMAIN opens |-> opens[k].file]
\* the requests committed while the stream entered at event i was open
BlockEnd(i) == CHOOSE j \in i..Len(Events) :
                   Events[j].op = "close" /\ \A k \in i..(j - 1) : Events[k].op # "close"
CommitsOfBlock(i) ==
    LET block == SelectSeq(SubSeq(Events, i, BlockEnd(i)), LAMBDA e : e.op = "commit")
    IN  [k \in DOMAIN block |-> block[k].req]
ItemsOfFile(f) == SelectSeq(load_plan, LAMBDA r : FileOfItem(r) = f)
LastOpen == SetMax({j \in DOMAIN Events : OpenAt(j)})

\* C15: in one read_data call the files opened are files holding a requested
\* item, each opened (and decoded) once however many items it serves, in the
\* order the plan first names them, and all of them when the call completes; a
\* file is closed before the next is opened, so at most one is open at a time;
\* every commit happens while the item's own file is open, and all the items
\* of a file are committed before the next file is opened.
C15_OneOpenPerFile ==
    ReadDone =>
        IF ~AllSrcKnown THEN Events = <<>>
        ELSE /\ Len(OpenedInOrder) <= Len(FilesInOrder)
             /\ OpenedInOrder = SubSeq(FilesInOrder, 1, Len(OpenedInOrder))
             /\ reader.returned => OpenedInOrder = FilesInOrder
             /\ Events # <<>> => Events[Len(Events)].op = "close"
             /\ \A i \in DOMAIN Events :
                   /\ OpenAt(i) => (i = 1 \/ Events[i - 1].op = "close")
                   /\ ~OpenAt(i) =>
                         /\ i > 1
                         /\ Events[i - 1].op \in {"open", "commit"}
                   /\ Events[i].op = "close" => Events[i].file = CurrentFile(i)
                   /\ Events[i].op = "commit" => FileOfItem(Events[i].req) = CurrentFile(i)
                   /\ (OpenAt(i) /\ (reader.returned \/ i # LastOpen)) =>
                         CommitsOfBlock(i) = ItemsOfFile(Events[i].file)

\* a completed call whose two items are served by one file, opened once
C15_Witness ==
    /\ ReadDone
    /\ reader.returned
    /\ Len(load_plan) = 2
    /\ FileOfItem(load_plan[1]) = FileOfItem(load_plan[2])
    /\ Len(OpenedInOrder) = 1
    /\ Len(reader.committed) = 2

\* ----------------------------------------------------------------- C16
\* C16: every read_data call of a load (after read_metadata and the set-up of
\* the reader) produces a completion handle; the handle resolves
\* successfully only after every item of every file group has been copied and
\* committed, and a failure during the batch is delivered as the failure of
\* that handle (a handle is returned, carrying the error), never as a handle
\* that resolves successfully and never as no handle at all.
C16_ReadCompletionHandle ==
    FullLoad =>
        /\ reader.returned
        /\ reader.error = NoError =>
              /\ Len(reader.committed) = Len(load_plan)
              /\ \A i \in DOMAIN load_plan :
                    \E j \in DOMAIN reader.committed : reader.committed[j] = load_plan[i]

\* ----------------------------------------------------------------- C17
\* the name -> file map of the metadata object read_metadata returned
MetaMap == Get(metadata).value.storage_data
SrcOf(i) == load_plan[i].storage_index.fqn
AllInMetaMap == \A i \in DOMAIN load_plan : DictHas(MetaMap, SrcOf(i))
\* read_data raised while grouping the items by file, before any file was touched
GroupingFailed ==
    /\ ~reader.returned
    /\ reader.error.type = "KeyError"
    /\ Events = <<>>
\* read_data went to the files the metadata's map names for the items
ResolvedByMetaMap ==
    /\ storage_data = MetaMap
    /\ AllInMetaMap =>
          /\ ~GroupingFailed
          /\ load_plan # <<>> =>
                IF concat_path(path, DictGet(MetaMap, SrcOf(1))) \in DOMAIN files
                THEN /\ OpenedInOrder # <<>>
                     /\ OpenedInOrder[1] = DictGet(MetaMap, SrcOf(1))
                ELSE reader.error = FileNotFoundError
          /\ \A i \in DOMAIN Events :
                Events[i].op = "commit" =>
                    CurrentFile(i) = DictGet(MetaMap, Events[i].req.storage_index.fqn)

\* C17 as stated: once read_metadata has returned, read_data consults the map
\* read_metadata built and resolves every item named in the manifest or header
\* to its file, with no further step populating the reader's map.
C17_Original == ReadDone => ResolvedByMetaMap

\* C17 amended: read_metadata only returns the map inside the metadata object
\* and leaves the reader's own map empty; once set_up_storage_reader has
\* stored that metadata's map in the reader, read_data consults it and
\* resolves every item named in it to its file; a read_data called before the
\* set-up finds the empty map and raises KeyError for the first item, and
\* completes only for an empty plan.
C17_ResolvedReadMetadataLifecycle ==
    /\ FullLoad => ResolvedByMetaMap
    /\ (ReadDone /\ ~FullLoad) =>
          /\ storage_data = <<>>
          /\ IF load_plan = <<>> THEN reader.returned
             ELSE /\ GroupingFailed
                  /\ reader.error = KeyError(SrcOf(1))

\* a completed load of two items the manifest places in two different files
C17_Witness ==
    /\ FullLoad
    /\ reader.returned
    /\ Len(load_plan) = 2
    /\ Len(MetaMap) = 2
    /\ Len(OpenedInOrder) = 2
    /\ SrcOf(1) # load_plan[1].dest_index.fqn

\* ----------------------------------------------------------------- C18
\* the 'of' field and the file index field of a generated name, as numbers
CountOf(name) == NumeralValue(CountField(name))
IndexOf(name) == NumeralValue(IndexField(name))
MapMax == SetMax({TheMap[n] : n \in DOMAIN TheMap})

\* C18: all the file names of one write_data call carry the same 'of' field,
\* the highest file index of the whole assignment map when there is a map and
\* 1 when there is none, whichever items the plan holds and in whatever order
\* its buckets come; and each name's file index, the index of its bucket's
\* items, is at most that value.
C18_UniformFileCountField ==
    \A p \in Procs :
        (Called(p) /\ writer[p].status = "done") =>
            \A t \in DOMAIN QueueOf(p) :
                LET name == QueueOf(p)[t].file_name
                IN  /\ CountOf(name) = IF HasMap THEN MapMax ELSE 1
                    /\ \A u \in DOMAIN QueueOf(p) :
                          CountOf(QueueOf(p)[u].file_name) = CountOf(name)
                    /\ IndexOf(name) = TaskIndex(QueueOf(p)[t])
                    /\ IndexOf(name) <= CountOf(name)

\* a write with two buckets taken in descending index order
C18_Witness ==
    \E p \in Procs :
        /\ Called(p) /\ writer[p].status = "done" /\ HasMap
        /\ Len(QueueOf(p)) = 2
        /\ IndexOf(QueueOf(p)[1].file_name) = 2
        /\ IndexOf(QueueOf(p)[2].file_name) = 1

\* ----------------------------------------------------------------- C19
ManifestEntries == files[ManifestPath].weight_map

\* C19: after the processes of a non-sharded save, each with a non-empty plan
\* and no item name on two of them, have written in any order and finish() has
\* run on all their results, every entry of the manifest's weight_map names a
\* file of the directory that contains that item, and no two processes wrote
\* to the same path (no write replaced a file holding another process's items).
C19_ManifestAgreesWithFiles ==
    (/\ finished
     /\ ~save_sharded
     /\ UniqueNames
     /\ \A p \in Procs : ItemsOf(p) # <<>>) =>
        /\ ManifestPath \in DOMAIN files
        /\ \A i \in DOMAIN ManifestEntries :
              LET n == ManifestEntries[i][1]
                  f == concat_path(path, ManifestEntries[i][2])
              IN  /\ f \in DOMAIN files
                  /\ FileHolds(f, n)
        /\ \A p, q \in Procs :
              p # q => \A t \in DOMAIN QueueOf(p), u \in DOMAIN QueueOf(q) :
                          QueueOf(p)[t].path # QueueOf(q)[u].path

\* ----------------------------------------------------------------- C20
\* C20: in a sharded save no two write tasks have the same file name (or
\* path): the names of different processes differ in the shard field and the
\* names of one write_data call differ in the file index.
C20_ShardedWritesNeverCollide ==
    save_sharded =>
        \A p, q \in Procs :
            \A t \in DOMAIN QueueOf(p), u \in DOMAIN QueueOf(q) :
                (p # q \/ t # u) =>
                    /\ QueueOf(p)[t].file_name # QueueOf(q)[u].file_name
                    /\ QueueOf(p)[t].path # QueueOf(q)[u].path
                    /\ p # q => ShardField(QueueOf(p)[t].file_name)
                                    # ShardField(QueueOf(q)[u].file_name)
                    /\ p = q => IndexOf(QueueOf(p)[t].file_name)
                                    # IndexOf(QueueOf(q)[u].file_name)

\* two processes wrote buckets of the same file index, one of them two buckets
C20_Witness ==
    /\ save_sharded
    /\ \E p, q \in Procs :
          /\ p # q
          /\ Len(QueueOf(p)) = 2
          /\ QueueOf(q) # <<>>
          /\ IndexOf(QueueOf(p)[1].file_name) = IndexOf(QueueOf(q)[1].file_name)

====
